---- MODULE Spec2Model ----
(***************************************************************************)
(* Model of the two operator scripts of PostgreSQL-Docker:                 *)
(*   scripts/backup_postgres.py        backup_database()                   *)
(*   scripts/restore_postgres_safe.py  restore_database_safe()             *)
(* Each script is one sequential process.  pc is its position; one action  *)
(* models one statement group between two blocking points (a subprocess    *)
(* launch, the wait for it, the inspection of its result).  Text is a      *)
(* sequence of code points, raw process output a sequence of bytes.        *)
(* restore_postgres_safe.py:110 has a backslash inside an f-string          *)
(* expression, which Python accepts from 3.12 on; the model is of the      *)
(* script under such an interpreter (an older one rejects the whole file   *)
(* at compile time, before any statement of it runs).  The host files and  *)
(* directories are changed by the scripts alone, except for the dump file  *)
(* of restore, which the host may remove between the check and the open.   *)
(***************************************************************************)
EXTENDS Integers, Sequences, FiniteSets, TLC

VARIABLES
    op,          \* which script runs: "backup" or "restore"
    pc,          \* position in the script
    cmds,        \* external commands handed to subprocess in this run, in order
    running,     \* the external processes alive right now
    f,           \* the local file handle of the with-block: "none", "open", "closed"
    returncode,  \* returncode of the last process, -1 while it is None
    stderr,      \* captured stderr of the last process
    drained,     \* the pipes of the last process were read to EOF
    out,         \* lines printed by this run
    exitStatus,  \* exit status of the script's process, -1 while it runs
    exc,         \* "none", "caught" (by an except clause), "uncaught"
    dumpFile,    \* restore: state of BACKUP_FILE_PATH on the host
    dumpAtStart, \* restore: state of BACKUP_FILE_PATH when the run started
    db,          \* restore: state of the target database in the container
    dir,         \* backup: state of BACKUP_DIR on the host
    dirAtStart,  \* backup: state of BACKUP_DIR when the current run started
    mkdirFailed, \* backup: os.makedirs raised OSError in this run
    clock,       \* backup: host clock, in ticks
    filepath,    \* backup: the output path built by this run
    files,       \* backup: the files under BACKUP_DIR, path -> [run, content]
    run,         \* backup: number of the current run of the script
    names,       \* backup: the path built by each run so far
    openAttempts,\* backup: calls of open(filepath, 'wb') in this run
    overwrote,   \* backup: some run truncated a file an earlier run had made
    measured     \* backup: os.path.getsize(filepath) was called in this run

vars == <<op, pc, cmds, running, f, returncode, stderr, drained, out, exitStatus,
          exc, dumpFile, dumpAtStart, db, dir, dirAtStart, mkdirFailed, clock,
          filepath, files, run, names, openAttempts, overwrote, measured>>

procVars    == <<running, returncode, stderr, drained>>
restoreVars == <<dumpFile, dumpAtStart, db>>
backupVars  == <<dir, dirAtStart, mkdirFailed, clock, filepath, files, run,
                 names, openAttempts, overwrote, measured>>

-----------------------------------------------------------------------------
(* Bounds *)

\* exit codes an external process may return are 0..MaxExitCode
MaxExitCode == 2
\* raw stderr samples: every byte string over ByteAlphabet up to this length
MaxErrLen == 2
\* runs of the backup script in one behaviour
MaxRuns == 2
\* clock ticks that may pass in one behaviour
MaxTicks == 3
\* resolution of the host clock below one second
TicksPerSecond == 2
\* second of the day at which the behaviour starts (just before a minute ends)
ClockStartSecond == 59

-----------------------------------------------------------------------------
(* Configuration *)

CONTAINER_NAME == "system-postgres"
DB_USER == "postgres"
DB_NAME == "postgres"
BACKUP_DIR == "./backups"
FORMAT == "c"
TARGET_DB_NAME == "postgres"
BACKUP_FILE_PATH == "./backups/your_backup_file.dump"

-----------------------------------------------------------------------------
(* Text and bytes *)

Range(s) == {s[i] : i \in DOMAIN s}

RECURSIVE SeqsUpTo(_, _)
SeqsUpTo(S, n) ==
    IF n = 0 THEN {<<>>}
    ELSE LET shorter == SeqsUpTo(S, n - 1)
         IN shorter \cup {Append(s, x) : s \in {t \in shorter : Len(t) = n - 1}, x \in S}

\* str.strip(): whitespace code points (tab, LF, VT, FF, CR, space)
IsSpace(c) == c \in {9, 10, 11, 12, 13, 32}

RECURSIVE LStrip(_)
LStrip(s) == IF s # <<>> /\ IsSpace(Head(s)) THEN LStrip(Tail(s)) ELSE s

RECURSIVE RStrip(_)
RStrip(s) ==
    IF s # <<>> /\ IsSpace(s[Len(s)]) THEN RStrip(SubSeq(s, 1, Len(s) - 1)) ELSE s

Strip(s) == RStrip(LStrip(s))

\* a prefix test, str.startswith, where the code tests containment
Contains_StartsWith(s, p) == Len(s) >= Len(p) /\ SubSeq(s, 1, Len(p)) = p

\* Python's  p in s  on strings
Contains(s, p) ==
    \E i \in 1..(Len(s) - Len(p) + 1) : SubSeq(s, i, i + Len(p) - 1) = p

\* "accessed by other users"
AccessedByOtherUsers ==
    <<97, 99, 99, 101, 115, 115, 101, 100, 32, 98, 121, 32,
      111, 116, 104, 101, 114, 32, 117, 115, 101, 114, 115>>

\* bytes.decode('utf-8'), strict, for one- and two-byte forms; every other
\* lead byte of ByteAlphabet is invalid in UTF-8 as well
IsContinuation(b) == b >= 128 /\ b <= 191

RECURSIVE Utf8Decode(_)
Utf8Decode(bs) ==
    IF bs = <<>> THEN [ok |-> TRUE, text |-> <<>>]
    ELSE IF bs[1] < 128 THEN
        LET r == Utf8Decode(Tail(bs))
        IN [ok |-> r.ok, text |-> <<bs[1]>> \o r.text]
    ELSE IF bs[1] >= 194 /\ bs[1] <= 223 /\ Len(bs) >= 2 /\ IsContinuation(bs[2]) THEN
        LET r == Utf8Decode(SubSeq(bs, 3, Len(bs)))
        IN [ok |-> r.ok, text |-> <<(bs[1] % 32) * 64 + (bs[2] % 64)>> \o r.text]
    ELSE [ok |-> FALSE, text |-> <<>>]

\* str.splitlines() for the line break LF
RECURSIVE SplitLines(_)
SplitLines(s) ==
    IF s = <<>> THEN <<>>
    ELSE IF \E i \in 1..Len(s) : s[i] = 10 THEN
        LET i == CHOOSE k \in 1..Len(s) : s[k] = 10 /\ \A j \in 1..(k - 1) : s[j] # 10
        IN <<SubSeq(s, 1, i - 1)>> \o SplitLines(SubSeq(s, i + 1, Len(s)))
    ELSE <<s>>

\* '\n'.join(lines)
RECURSIVE JoinLines(_)
JoinLines(lines) ==
    IF lines = <<>> THEN <<>>
    ELSE IF Len(lines) = 1 THEN lines[1]
    ELSE lines[1] \o <<10>> \o JoinLines(Tail(lines))

\* lines[-5:]
LastFive(lines) ==
    IF Len(lines) <= 5 THEN lines ELSE SubSeq(lines, Len(lines) - 4, Len(lines))

\* the text printed after "[LOG] Last 5 lines of output:"
LogTail(text) == JoinLines(LastFive(SplitLines(text)))

-----------------------------------------------------------------------------
(* Inputs: what the external tools may answer *)

ExitCodes == 0..MaxExitCode

\* 'A', LF, and the two bytes of U+00E9; 0xC3 or 0xA9 alone is not UTF-8
ByteAlphabet == {65, 10, 195, 169}

\* seven lines of log, more than the five that are printed
LongLog == <<65, 10, 65, 10, 65, 10, 65, 10, 65, 10, 65, 10, 65>>

RawStderrs == SeqsUpTo(ByteAlphabet, MaxErrLen) \cup {LongLog}

\* stderr of psql as subprocess.run(text=True) hands it over
PsqlStderrs ==
    { <<>>,
      <<32, 10>>,
      <<110, 111>>,
      <<69, 58, 32>> \o AccessedByOtherUsers \o <<10>>,
      <<10, 32>> \o AccessedByOtherUsers \o <<32, 10>>,
      SubSeq(AccessedByOtherUsers, 1, Len(AccessedByOtherUsers) - 1) \o <<10>> }

-----------------------------------------------------------------------------
(* Printed lines *)

Msg(tag, text) == [tag |-> tag, text |-> text]

Printed(tag) == \E i \in DOMAIN out : out[i].tag = tag

-----------------------------------------------------------------------------
(* Commands *)

DropSql == <<"DROP DATABASE IF EXISTS", TARGET_DB_NAME>>
CreateSql == <<"CREATE DATABASE", TARGET_DB_NAME>>

PsqlCmd(sql_command) ==
    [name |-> sql_command[1],
     argv |-> <<"docker", "exec", CONTAINER_NAME, "psql", "-U", DB_USER,
                "-d", "postgres", "-c">>,
     sql  |-> sql_command]

\* the restore command line without the flag that skips access privileges
restore_cmd_NoAcl ==
    [name |-> "pg_restore",
     argv |-> <<"docker", "exec", "-i", CONTAINER_NAME, "pg_restore", "-U", DB_USER,
                "-d", TARGET_DB_NAME, "-v", "--no-owner">>,
     sql  |-> <<>>]

restore_cmd ==
    [name |-> "pg_restore",
     argv |-> <<"docker", "exec", "-i", CONTAINER_NAME, "pg_restore", "-U", DB_USER,
                "-d", TARGET_DB_NAME, "-v", "--no-owner", "--no-acl">>,
     sql  |-> <<>>]

backup_cmd ==
    [name |-> "pg_dump",
     argv |-> <<"docker", "exec", "-i", CONTAINER_NAME, "pg_dump", "-U", DB_USER,
                "-F", FORMAT, DB_NAME>>,
     sql  |-> <<>>]

Issued(name) == \E i \in DOMAIN cmds : cmds[i].name = name

-----------------------------------------------------------------------------
(* Initial state: one of the two scripts has just been started *)

DumpFileStates == {"absent", "unreadable", "valid", "corrupt"}
DirStates == {"absent", "dir", "file"}

InitCommon ==
    /\ cmds = <<>>
    /\ running = {}
    /\ f = "none"
    /\ returncode = -1
    /\ stderr = <<>>
    /\ drained = FALSE
    /\ out = <<>>
    /\ exitStatus = -1
    /\ exc = "none"

InitRestore ==
    /\ op = "restore"
    /\ pc = "check"
    /\ dumpFile \in DumpFileStates
    /\ dumpAtStart = dumpFile
    /\ db = "original"
    /\ dir = "dir"
    /\ dirAtStart = "dir"
    /\ mkdirFailed = FALSE
    /\ clock = 0
    /\ filepath = <<>>
    /\ files = <<>>
    /\ run = 0
    /\ names = <<>>
    /\ openAttempts = 0
    /\ overwrote = FALSE
    /\ measured = FALSE

InitBackup ==
    /\ op = "backup"
    /\ pc = "ensure_dir"
    /\ dumpFile = "absent"
    /\ dumpAtStart = "absent"
    /\ db = "original"
    /\ dir \in DirStates
    /\ dirAtStart = dir
    /\ mkdirFailed = FALSE
    /\ clock = ClockStartSecond * TicksPerSecond
    /\ filepath = <<>>
    /\ files = <<>>
    /\ run = 1
    /\ names = <<>>
    /\ openAttempts = 0
    /\ overwrote = FALSE
    /\ measured = FALSE

Init == InitCommon /\ (InitRestore \/ InitBackup)

-----------------------------------------------------------------------------
(* Ways a script ends *)

\* sys.exit(status), or falling off the end of the script with status 0
Exit(status, lines) ==
    /\ pc' = "exited"
    /\ exitStatus' = status
    /\ out' = out \o lines

\* an exception no except clause catches: traceback, exit status 1
Uncaught ==
    /\ exc' = "uncaught"
    /\ Exit(1, <<Msg("Traceback (most recent call last)", <<>>)>>)

-----------------------------------------------------------------------------
(* run_docker_sql *)

\* (success, error_message) from the CompletedProcess
run_docker_sql(rc, err) ==
    IF rc # 0 THEN [success |-> FALSE, error_msg |-> Strip(err)]
    ELSE [success |-> TRUE, error_msg |-> <<>>]

\* subprocess.run starts the command; starting may raise, outside any try
SqlLaunch(sql_command, step, next) ==
    /\ cmds' = Append(cmds, PsqlCmd(sql_command))
    /\ returncode' = -1
    /\ drained' = FALSE
    /\ stderr' = <<>>
    /\ \/ /\ running' = running \cup {sql_command[1]}
          /\ pc' = next
          /\ out' = Append(out, Msg(step, <<>>))
          /\ UNCHANGED <<exitStatus, exc>>
       \/ /\ running' = running
          /\ exc' = "uncaught"
          /\ Exit(1, <<Msg(step, <<>>), Msg("Traceback (most recent call last)", <<>>)>>)
    /\ UNCHANGED <<op, f, restoreVars, backupVars>>

\* subprocess.run waits for the command and captures its output
SqlWait(sql_command, next, dbAfter) ==
    /\ \E rc \in ExitCodes :
         \E err \in (IF rc = 0 THEN {<<>>} ELSE PsqlStderrs) :
            /\ returncode' = rc
            /\ stderr' = err
            /\ db' = IF rc = 0 THEN dbAfter ELSE db
    /\ running' = running \ {sql_command[1]}
    /\ drained' = TRUE
    /\ pc' = next
    /\ UNCHANGED <<op, cmds, f, out, exitStatus, exc, dumpFile, dumpAtStart, backupVars>>

-----------------------------------------------------------------------------
(* restore_database_safe *)

\* the existence check without its sys.exit(1)
R_CheckFile_NoExit ==
    /\ op = "restore" /\ pc = "check"
    /\ pc' = "drop_run"
    /\ out' = (IF dumpFile = "absent"
               THEN out \o <<Msg("[ERROR] Backup file not found", <<>>)>>
               ELSE out \o <<Msg("[INFO] Prepare to restore file", <<>>),
                             Msg("[INFO] Target Database", <<>>)>>)
    /\ UNCHANGED <<op, cmds, f, exitStatus, exc, procVars, restoreVars, backupVars>>

R_CheckFile ==
    /\ op = "restore" /\ pc = "check"
    /\ IF dumpFile = "absent"
       THEN Exit(1, <<Msg("[ERROR] Backup file not found", <<>>)>>)
       ELSE /\ pc' = "drop_run"
            /\ out' = out \o <<Msg("[INFO] Prepare to restore file", <<>>),
                               Msg("[INFO] Target Database", <<>>)>>
            /\ UNCHANGED exitStatus
    /\ UNCHANGED <<op, cmds, f, exc, procVars, restoreVars, backupVars>>

R_DropRun ==
    /\ op = "restore" /\ pc = "drop_run"
    /\ SqlLaunch(DropSql, "[STEP 1/3] Attempting to DROP database", "drop_wait")

R_DropWait ==
    /\ op = "restore" /\ pc = "drop_wait"
    /\ SqlWait(DropSql, "drop_result", "absent")

DropSuggestion(error_msg) ==
    IF Contains(error_msg, AccessedByOtherUsers)
    THEN <<Msg("[SUGGESTION] There are active connections", <<>>),
           Msg("[SUGGESTION] Please stop your services or close connections manually.", <<>>)>>
    ELSE <<Msg("[SUGGESTION] Check if the database name is valid.", <<>>)>>

R_DropResult ==
    /\ op = "restore" /\ pc = "drop_result"
    /\ LET r == run_docker_sql(returncode, stderr)
       IN IF ~r.success
          THEN Exit(1, <<Msg("[ERROR] Failed to drop database.", <<>>),
                         Msg("[DETAILS] Postgres returned error", r.error_msg)>>
                       \o DropSuggestion(r.error_msg)
                       \o <<Msg("[RESULT] Restore aborted. No data was changed.", <<>>)>>)
          ELSE /\ pc' = "create_run"
               /\ UNCHANGED <<out, exitStatus>>
    /\ UNCHANGED <<op, cmds, f, exc, procVars, restoreVars, backupVars>>

R_CreateRun ==
    /\ op = "restore" /\ pc = "create_run"
    /\ SqlLaunch(CreateSql, "[STEP 2/3] Creating fresh database", "create_wait")

R_CreateWait ==
    /\ op = "restore" /\ pc = "create_wait"
    /\ SqlWait(CreateSql, "create_result", "empty")

\* the create step without its sys.exit(1)
R_CreateResult_NoExit ==
    /\ op = "restore" /\ pc = "create_result"
    /\ LET r == run_docker_sql(returncode, stderr)
       IN /\ pc' = "open"
          /\ out' = (IF ~r.success
                     THEN out \o <<Msg("[ERROR] Failed to create database", r.error_msg)>>
                     ELSE out)
                    \o <<Msg("[STEP 3/3] Restoring data from dump file...", <<>>)>>
    /\ UNCHANGED <<op, cmds, f, exitStatus, exc, procVars, restoreVars, backupVars>>

R_CreateResult ==
    /\ op = "restore" /\ pc = "create_result"
    /\ LET r == run_docker_sql(returncode, stderr)
       IN IF ~r.success
          THEN Exit(1, <<Msg("[ERROR] Failed to create database", r.error_msg)>>)
          ELSE /\ pc' = "open"
               /\ out' = Append(out, Msg("[STEP 3/3] Restoring data from dump file...", <<>>))
               /\ UNCHANGED exitStatus
    /\ UNCHANGED <<op, cmds, f, exc, procVars, restoreVars, backupVars>>

\* the except clause of the restore step: print, sys.exit(1)
RestoreExcept ==
    /\ exc' = "caught"
    /\ Exit(1, <<Msg("[EXCEPTION] Critical error during restore", <<>>)>>)

R_Open ==
    /\ op = "restore" /\ pc = "open"
    /\ IF dumpFile \in {"valid", "corrupt"}
       THEN /\ f' = "open"
            /\ pc' = "popen"
            /\ UNCHANGED <<out, exitStatus, exc>>
       ELSE /\ f' = f
            /\ RestoreExcept
    /\ UNCHANGED <<op, cmds, procVars, restoreVars, backupVars>>

R_Popen ==
    /\ op = "restore" /\ pc = "popen"
    /\ cmds' = Append(cmds, restore_cmd)
    /\ returncode' = -1
    /\ drained' = FALSE
    /\ stderr' = <<>>
    /\ \/ /\ running' = running \cup {restore_cmd.name}
          /\ pc' = "communicate"
          /\ UNCHANGED <<f, out, exitStatus, exc>>
       \/ /\ running' = running
          /\ f' = "closed"
          /\ RestoreExcept
    /\ UNCHANGED <<op, restoreVars, backupVars>>

R_Communicate ==
    /\ op = "restore" /\ pc = "communicate"
    /\ \E rc \in (IF dumpFile = "corrupt" THEN ExitCodes \ {0} ELSE ExitCodes) :
         \E err \in RawStderrs :
            /\ returncode' = rc
            /\ stderr' = err
            /\ db' \in (IF rc = 0 THEN {"populated"} ELSE {"empty", "partial", "populated"})
    /\ running' = running \ {restore_cmd.name}
    /\ drained' = TRUE
    /\ pc' = "report"
    /\ UNCHANGED <<op, cmds, f, out, exitStatus, exc, dumpFile, dumpAtStart, backupVars>>

R_Report ==
    /\ op = "restore" /\ pc = "report"
    /\ f' = "closed"
    /\ IF returncode = 0
       THEN /\ Exit(0, <<Msg("[SUCCESS] Database restore completed successfully!", <<>>)>>)
            /\ UNCHANGED exc
       ELSE LET info == Msg("[INFO] Restore finished", <<returncode>>)
                d == Utf8Decode(stderr)
            IN IF stderr = <<>>
               THEN Exit(0, <<info>>) /\ UNCHANGED exc
               ELSE IF d.ok
               THEN /\ Exit(0, <<info, Msg("[LOG] Last 5 lines of output", LogTail(d.text))>>)
                    /\ UNCHANGED exc
               ELSE /\ exc' = "caught"
                    /\ Exit(1, <<info, Msg("[EXCEPTION] Critical error during restore", <<>>)>>)
    /\ UNCHANGED <<op, cmds, procVars, restoreVars, backupVars>>

\* the host may remove the dump file between the existence check and open()
EnvRemoveDump ==
    /\ op = "restore"
    /\ pc \in {"drop_run", "drop_wait", "drop_result",
               "create_run", "create_wait", "create_result", "open"}
    /\ dumpFile # "absent"
    /\ dumpFile' = "absent"
    /\ UNCHANGED <<op, pc, cmds, f, out, exitStatus, exc, procVars, dumpAtStart, db,
                   backupVars>>

RestoreNext ==
    \/ R_CheckFile
    \/ R_DropRun
    \/ R_DropWait
    \/ R_DropResult
    \/ R_CreateRun
    \/ R_CreateWait
    \/ R_CreateResult
    \/ R_Open
    \/ R_Popen
    \/ R_Communicate
    \/ R_Report
    \/ EnvRemoveDump

-----------------------------------------------------------------------------
(* backup_database *)

\* datetime.now().strftime('%Y%m%d_%H%M%S'): the date (as a day number) and the
\* hour, minute and second fields; what is below one second is dropped
Strftime(t) ==
    LET s == t \div TicksPerSecond
    IN <<s \div 86400, (s \div 3600) % 24, (s \div 60) % 60, s % 60>>

Extension == IF FORMAT = "c" THEN "dump" ELSE "sql"

\* os.path.join(BACKUP_DIR, f"{DB_NAME}_{timestamp}.{extension}")
Filepath(t) == <<BACKUP_DIR, DB_NAME, Strftime(t), Extension>>

\* the except clause of the dump step: print, fall off the end of the script
BackupExcept(lines) ==
    /\ exc' = "caught"
    /\ Exit(0, lines \o <<Msg("[EXCEPTION] An error occurred", <<>>)>>)

\* the directory step without the return in its except clause
B_EnsureDir_NoReturn ==
    /\ op = "backup" /\ pc = "ensure_dir"
    /\ pc' = "name"
    /\ IF dir = "absent"
       THEN \/ /\ dir' = "dir"
               /\ out' = Append(out, Msg("[INFO] Created backup directory", <<>>))
               /\ UNCHANGED mkdirFailed
            \/ /\ dir' = dir
               /\ mkdirFailed' = TRUE
               /\ out' = Append(out, Msg("[ERROR] Failed to create directory", <<>>))
       ELSE UNCHANGED <<dir, mkdirFailed, out>>
    /\ UNCHANGED <<op, cmds, f, exitStatus, exc, procVars, restoreVars, dirAtStart, clock,
                   filepath, files, run, names, openAttempts, overwrote, measured>>

B_EnsureDir ==
    /\ op = "backup" /\ pc = "ensure_dir"
    /\ IF dir = "absent"
       THEN \/ /\ dir' = "dir"
               /\ pc' = "name"
               /\ out' = Append(out, Msg("[INFO] Created backup directory", <<>>))
               /\ UNCHANGED <<mkdirFailed, exitStatus>>
            \/ /\ dir' = dir
               /\ mkdirFailed' = TRUE
               /\ Exit(0, <<Msg("[ERROR] Failed to create directory", <<>>)>>)
       ELSE /\ pc' = "name"
            /\ UNCHANGED <<dir, mkdirFailed, out, exitStatus>>
    /\ UNCHANGED <<op, cmds, f, exc, procVars, restoreVars, dirAtStart, clock, filepath,
                   files, run, names, openAttempts, overwrote, measured>>

B_Name ==
    /\ op = "backup" /\ pc = "name"
    /\ filepath' = Filepath(clock)
    /\ names' = Append(names, filepath')
    /\ out' = Append(out, Msg("[INFO] Starting backup for database", <<>>))
    /\ pc' = "open"
    /\ UNCHANGED <<op, cmds, f, exitStatus, exc, procVars, restoreVars, dir, dirAtStart,
                   mkdirFailed, clock, files, run, openAttempts, overwrote, measured>>

\* open(filepath, 'wb') creates the file or truncates the one that is there
B_Open ==
    /\ op = "backup" /\ pc = "open"
    /\ openAttempts' = openAttempts + 1
    /\ \/ /\ dir = "dir"
          /\ f' = "open"
          /\ files' = (filepath :> [run |-> run, content |-> "empty"]) @@ files
          /\ overwrote' = (overwrote \/ filepath \in DOMAIN files)
          /\ pc' = "popen"
          /\ UNCHANGED <<out, exitStatus, exc>>
       \/ /\ BackupExcept(<<>>)
          /\ UNCHANGED <<f, files, overwrote>>
    /\ UNCHANGED <<op, cmds, procVars, restoreVars, dir, dirAtStart, mkdirFailed, clock,
                   filepath, run, names, measured>>

\* the dump launch with a file opened outside a with-block: a raise leaves it open
B_Popen_LeakOnRaise ==
    /\ op = "backup" /\ pc = "popen"
    /\ cmds' = Append(cmds, backup_cmd)
    /\ returncode' = -1
    /\ drained' = FALSE
    /\ stderr' = <<>>
    /\ \/ /\ running' = running \cup {backup_cmd.name}
          /\ pc' = "communicate"
          /\ UNCHANGED <<f, out, exitStatus, exc>>
       \/ /\ running' = running
          /\ f' = f
          /\ BackupExcept(<<>>)
    /\ UNCHANGED <<op, restoreVars, backupVars>>

B_Popen ==
    /\ op = "backup" /\ pc = "popen"
    /\ cmds' = Append(cmds, backup_cmd)
    /\ returncode' = -1
    /\ drained' = FALSE
    /\ stderr' = <<>>
    /\ \/ /\ running' = running \cup {backup_cmd.name}
          /\ pc' = "communicate"
          /\ UNCHANGED <<f, out, exitStatus, exc>>
       \/ /\ running' = running
          /\ f' = "closed"
          /\ BackupExcept(<<>>)
    /\ UNCHANGED <<op, restoreVars, backupVars>>

\* the dump writes to the file through its own stdout; communicate() reads
\* stderr to EOF and waits for the process
B_Communicate ==
    /\ op = "backup" /\ pc = "communicate"
    /\ \E rc \in ExitCodes :
         \E err \in RawStderrs :
            \E content \in (IF rc = 0 THEN {"full"} ELSE {"empty", "partial"}) :
               /\ returncode' = rc
               /\ stderr' = err
               /\ files' = [files EXCEPT ![filepath].content = content]
    /\ running' = running \ {backup_cmd.name}
    /\ drained' = TRUE
    /\ pc' = "report"
    /\ UNCHANGED <<op, cmds, f, out, exitStatus, exc, restoreVars, dir, dirAtStart,
                   mkdirFailed, clock, filepath, run, names, openAttempts, overwrote,
                   measured>>

B_Report ==
    /\ op = "backup" /\ pc = "report"
    /\ f' = "closed"
    /\ IF returncode = 0
       THEN /\ measured' = TRUE
            /\ Exit(0, <<Msg("[SUCCESS] Backup successful!", <<>>),
                         Msg("[SAVED] File", <<>>),
                         Msg("[SIZE]", <<>>)>>)
            /\ UNCHANGED exc
       ELSE LET error == Msg("[ERROR] Backup failed with return code", <<returncode>>)
                d == Utf8Decode(stderr)
            IN /\ measured' = measured
               /\ IF stderr = <<>>
                  THEN Exit(0, <<error>>) /\ UNCHANGED exc
                  ELSE IF d.ok
                  THEN Exit(0, <<error, Msg("[DETAILS]", d.text)>>) /\ UNCHANGED exc
                  ELSE BackupExcept(<<error>>)
    /\ UNCHANGED <<op, cmds, procVars, restoreVars, dir, dirAtStart, mkdirFailed, clock,
                   filepath, files, run, names, openAttempts, overwrote>>

\* the operator (or cron) starts the script again
B_NextRun ==
    /\ op = "backup" /\ pc = "exited"
    /\ run < MaxRuns
    /\ run' = run + 1
    /\ pc' = "ensure_dir"
    /\ cmds' = <<>>
    /\ f' = "none"
    /\ returncode' = -1
    /\ stderr' = <<>>
    /\ drained' = FALSE
    /\ out' = <<>>
    /\ exitStatus' = -1
    /\ exc' = "none"
    /\ dirAtStart' = dir
    /\ mkdirFailed' = FALSE
    /\ filepath' = <<>>
    /\ openAttempts' = 0
    /\ measured' = FALSE
    /\ UNCHANGED <<op, running, restoreVars, dir, clock, files, names, overwrote>>

\* time passes
Tick ==
    /\ op = "backup"
    /\ clock < ClockStartSecond * TicksPerSecond + MaxTicks
    /\ clock' = clock + 1
    /\ UNCHANGED <<op, pc, cmds, f, out, exitStatus, exc, procVars, restoreVars, dir,
                   dirAtStart, mkdirFailed, filepath, files, run, names, openAttempts,
                   overwrote, measured>>

BackupNext ==
    \/ B_EnsureDir
    \/ B_Name
    \/ B_Open
    \/ B_Popen
    \/ B_Communicate
    \/ B_Report
    \/ B_NextRun
    \/ Tick

Next == RestoreNext \/ BackupNext

Spec == Init /\ [][Next]_vars

-----------------------------------------------------------------------------
(* Properties *)

Restoring == op = "restore"
BackingUp == op = "backup"

DropCmd == PsqlCmd(DropSql)
CreateCmd == PsqlCmd(CreateSql)

\* the last external process ran to completion and returned a non-zero code
ReturnedNonZero == running = {} /\ returncode # -1 /\ returncode # 0

\* the drop command returned failure: it was run, and the database it was to
\* drop is still the original one
DropFailed ==
    /\ Restoring /\ Issued(DropCmd.name) /\ ReturnedNonZero
    /\ db = "original" /\ pc # "drop_result"

\* the create command returned failure: the database is dropped and not made
CreateFailed ==
    /\ Restoring /\ Issued(CreateCmd.name) /\ ReturnedNonZero
    /\ db = "absent" /\ pc # "create_result"

\* drop and create both succeeded: the fresh database exists
DropAndCreateSucceeded == Restoring /\ db \in {"empty", "partial", "populated"}

HasSkipFlags(cmd) == "--no-owner" \in Range(cmd.argv) /\ "--no-acl" \in Range(cmd.argv)

ActiveConnectionsPrinted == Printed("[SUGGESTION] There are active connections")
CheckNamePrinted == Printed("[SUGGESTION] Check if the database name is valid.")

\* C1: restore: when the dump file does not exist as the run starts, no
\* database command is ever issued, and once the check has run the process has
\* printed the not-found error, and nothing else, and exited with status 1.
C1_MissingDumpExitsBeforeAnyCommand ==
    (Restoring /\ dumpAtStart = "absent") =>
        /\ cmds = <<>>
        /\ running = {}
        /\ pc # "check" =>
              /\ pc = "exited"
              /\ exitStatus = 1
              /\ out = <<Msg("[ERROR] Backup file not found", <<>>)>>

C1_Witness ==
    /\ Restoring /\ dumpAtStart = "absent"
    /\ pc = "exited" /\ exitStatus = 1
    /\ Printed("[ERROR] Backup file not found")

\* C2: restore: when the drop command fails, the run has exited with status 1
\* having issued the drop command alone; the active-connections suggestion is
\* printed exactly when psql's error text contains "accessed by other users",
\* and the check-the-name suggestion exactly when it does not.
C2_DropFailureAborts ==
    DropFailed =>
        /\ pc = "exited"
        /\ exitStatus = 1
        /\ cmds = <<DropCmd>>
        /\ Printed("[ERROR] Failed to drop database.")
        /\ ActiveConnectionsPrinted <=> Contains(stderr, AccessedByOtherUsers)
        /\ CheckNamePrinted <=> ~Contains(stderr, AccessedByOtherUsers)

C2_Witness ==
    /\ DropFailed /\ pc = "exited"
    /\ Contains(stderr, AccessedByOtherUsers)
    /\ stderr # Strip(stderr)
    /\ Head(Strip(stderr)) # Head(AccessedByOtherUsers)
    /\ ActiveConnectionsPrinted

\* C3: restore: the commands issued are always a prefix of drop, create,
\* restore (fixed order, each at most once); create is issued only once the
\* drop has succeeded, restore only once the create has succeeded; a create
\* failure ends the run with status 1 after exactly drop and create, the
\* database left dropped.
C3_LinearNoRetry ==
    Restoring =>
        /\ Len(cmds) <= 3
        /\ cmds = SubSeq(<<DropCmd, CreateCmd, restore_cmd>>, 1, Len(cmds))
        /\ Issued(CreateCmd.name) => db # "original"
        /\ Issued(restore_cmd.name) => DropAndCreateSucceeded
        /\ CreateFailed =>
              /\ pc = "exited"
              /\ exitStatus = 1
              /\ cmds = <<DropCmd, CreateCmd>>

C3_Witness ==
    /\ CreateFailed /\ pc = "exited" /\ exitStatus = 1
    /\ cmds = <<DropCmd, CreateCmd>>

\* C4: restore: once the restore command has run to completion, whatever its
\* exit code, the process ends with exit status 0.
C4_RestoreExitCodeIsInformational ==
    (Restoring /\ pc = "exited" /\ Issued(restore_cmd.name) /\ returncode # -1) =>
        exitStatus = 0

\* C5 as stated: restore: whenever drop and create have both succeeded, the
\* run does not end without having invoked the restore command, with the
\* skip-ownership and skip-ACL flags, whatever became of the dump file.
C5_RestoreAlwaysInvoked ==
    (DropAndCreateSucceeded /\ pc = "exited") =>
        \E i \in DOMAIN cmds : cmds[i].name = restore_cmd.name /\ HasSkipFlags(cmds[i])

\* C5 amended: restore: when drop and create have both succeeded, the run
\* ends having invoked the restore command if the dump file is there and
\* readable when it is opened, whatever its contents; when the file is gone
\* or unreadable by then, the run ends with exit status 1 through the except
\* clause without invoking restore.  Every restore command issued carries
\* --no-owner and --no-acl.
C5_RestoreInvokedWhenDumpOpens ==
    /\ \A i \in DOMAIN cmds : cmds[i].name = restore_cmd.name => HasSkipFlags(cmds[i])
    /\ (DropAndCreateSucceeded /\ pc = "exited") =>
          IF dumpFile \in {"valid", "corrupt"}
          THEN Issued(restore_cmd.name)
          ELSE /\ ~Issued(restore_cmd.name)
               /\ exitStatus = 1
               /\ exc = "caught"
               /\ Printed("[EXCEPTION] Critical error during restore")

C5_Witness ==
    /\ DropAndCreateSucceeded /\ pc = "exited"
    /\ dumpFile = "corrupt"
    /\ \E i \in DOMAIN cmds : cmds[i].name = restore_cmd.name /\ HasSkipFlags(cmds[i])

\* C6: both scripts: no host exception leaves backup_database or
\* restore_database_safe uncaught.
C6_NoUncaughtException == exc # "uncaught"

\* C7: backup: the dump command is issued only while the backup directory
\* exists (so a directory that was absent has been created first), and when the
\* directory was absent and could not be created the run has ended without any
\* open() of the output file and without any command.
C7_DirectoryBeforeDump ==
    BackingUp =>
        /\ Issued(backup_cmd.name) => dir = "dir"
        /\ backup_cmd.name \in running => dir = "dir"
        /\ (dirAtStart = "absent" /\ dir # "dir" /\ pc # "ensure_dir") =>
              /\ pc = "exited"
              /\ openAttempts = 0
              /\ f = "none"
              /\ cmds = <<>>
              /\ files = <<>> \/ run > 1

C7_Witness ==
    /\ BackingUp /\ dirAtStart = "absent" /\ dir = "dir"
    /\ backup_cmd.name \in running
    /\ Printed("[INFO] Created backup directory")

\* C8: backup: the paths built by any two runs differ, and no run truncates
\* a file an earlier run made.
C8_UniqueArtifactNames ==
    /\ \A i, j \in DOMAIN names : i # j => names[i] # names[j]
    /\ ~overwrote

\* C9: backup: when the dump command exits non-zero the run prints no success
\* line, prints the failure line and (when there is any) the captured
\* diagnostic stream, leaves the output file on disk unmeasured, and ends with
\* exit status 0; success and size lines appear only after exit code 0.
C9_DumpFailureReported ==
    BackingUp =>
        /\ (pc = "exited" /\ Issued(backup_cmd.name) /\ ReturnedNonZero) =>
              /\ ~Printed("[SUCCESS] Backup successful!")
              /\ Printed("[ERROR] Backup failed with return code")
              /\ stderr # <<>> => Printed("[DETAILS]")
              /\ filepath \in DOMAIN files
              /\ files[filepath].content \in {"empty", "partial"}
              /\ ~measured
              /\ exitStatus = 0
        /\ (Printed("[SUCCESS] Backup successful!") \/ Printed("[SIZE]") \/ measured) =>
              returncode = 0

\* the process whose wait the script is at
AwaitedAt(p) ==
    IF p = "drop_wait" THEN {DropCmd.name}
    ELSE IF p = "create_wait" THEN {CreateCmd.name}
    ELSE IF p = "communicate" THEN {IF Restoring THEN restore_cmd.name ELSE backup_cmd.name}
    ELSE {}

====
